---- MODULE Spec2Model ----
(***************************************************************************)
(* State-machine model of the SOS rules engine (src/game_logic.py):        *)
(* BaseSOSGame, SimpleSOSGame and GeneralSOSGame, driven by a caller that  *)
(* invokes make_move and import_record.  Python strings that are inspected *)
(* character by character (the letter argument) are sequences of           *)
(* one-character strings; a one-character string that is stored (a board   *)
(* cell) is its character.                                                 *)
(***************************************************************************)
EXTENDS Integers, Sequences, FiniteSets, TLC

VARIABLES mode, board_size, board, owner_board, current_turn, move_count,
          game_over, last_sos_lines, last_move_player, move_history,
          winner, scores, ret, raised, skipped, imports, resets

\* ret is what the last make_move call returned (FALSE before the first
\* call), raised tells whether the last call ended with an exception, and
\* skipped, imports and resets belong to the caller (see CallerMay,
\* CallerMayImport and CallerMayReset); the other variables are the fields of the engine.
engine == <<mode, board_size, board, owner_board, current_turn, move_count,
            game_over, last_sos_lines, last_move_player, move_history,
            winner, scores>>

vars == <<mode, board_size, board, owner_board, current_turn, move_count,
          game_over, last_sos_lines, last_move_player, move_history,
          winner, scores, ret, raised, skipped, imports, resets>>

(***************************************************************************)
(* Bounds of the model.                                                    *)
(***************************************************************************)
\* The caller fills the board in row-major order but may pass over empty
\* cells: a placement on the k-th empty cell passes over k - 1 cells, and
\* MaxSkip cells may be passed over in a game (the letters stay free).
MaxSkip == 1

\* The number of import_record calls on one engine.
MaxImports == 1

\* The number of reset_game calls on one engine.
MaxResets == 1

\* Sizes handed to the constructor; all of them give a 3 x 3 board.
CtorSizes == {1, 3}

\* Letter arguments handed to make_move, as character sequences: two that
\* normalize to a letter of the game and four that do not.
GoodLetters == { <<"S">>, <<"\t", "o", " ">> }

BadLetters == { <<"X">>, <<"S", "O">>, <<>>, <<" ">> }

Letters == GoodLetters \cup BadLetters

\* Row and column arguments handed to make_move that lie off a 3 x 3 grid:
\* below zero, past the last index, in one coordinate or in both.
OffGrid == { <<-1, 0>>, <<0, -1>>, <<3, 0>>, <<0, 3>>, <<-1, -1>>, <<3, 3>> }

\* The calls the caller makes, as <<r, c, letter>>: a good letter on every
\* cell of the grid, every bad letter on the centre cell, and a good letter
\* on every off-grid position.
Inputs ==
    ((0 .. 2) \X (0 .. 2) \X GoodLetters)
    \cup { <<1, 1, l>> : l \in BadLetters }
    \cup { <<p[1], p[2], <<"S">> >> : p \in OffGrid }

(***************************************************************************)
(* Python values.                                                          *)
(***************************************************************************)
None == "None"

Players == {"blue", "red"}

\* tuple(x) and list(x): the same items, a different Python type.
Tuple(x) == [kind |-> "tuple", items |-> x]

List(x) == [kind |-> "list", items |-> x]

\* max(3, int(board_size))
MinBoardSize == 3

Max(a, b) == IF a >= b THEN a ELSE b

\* str.strip(): drop leading and trailing whitespace.
Whitespace == {" ", "\t", "\n"}

RECURSIVE lstrip(_)
lstrip(s) == IF s # <<>> /\ Head(s) \in Whitespace THEN lstrip(Tail(s)) ELSE s

RECURSIVE rstrip(_)
rstrip(s) ==
    IF s # <<>> /\ s[Len(s)] \in Whitespace
    THEN rstrip(SubSeq(s, 1, Len(s) - 1))
    ELSE s

strip(s) == rstrip(lstrip(s))

\* str.upper() on the characters the callers use.
UpperChar(ch) ==
    CASE ch = "s" -> "S"
      [] ch = "o" -> "O"
      [] ch = "x" -> "X"
      [] OTHER -> ch

upper(s) == [i \in 1 .. Len(s) |-> UpperChar(s[i])]

(***************************************************************************)
(* BaseSOSGame                                                             *)
(***************************************************************************)
EmptyGrid(n) == [r \in 0 .. n - 1 |-> [c \in 0 .. n - 1 |-> None]]

in_bounds(n, r, c) == 0 <= r /\ r < n /\ 0 <= c /\ c < n

\* Variant: the occupancy test is forgotten.
cell_empty_NoOccupancy(b, n, r, c) == in_bounds(n, r, c)

cell_empty(b, n, r, c) == in_bounds(n, r, c) /\ b[r][c] = None

\* Variant of toggle_turn that leaves the turn with the same player.
toggle_turn_Stuck(t) == t

toggle_turn(t) == IF t = "blue" THEN "red" ELSE "blue"

\* l[i] on a Python list: a negative index counts from the end, and an
\* index outside -len .. len - 1 is an IndexError (no value).
subscript(l, i) == IF i >= 0 THEN l[i] ELSE l[i + Cardinality(DOMAIN l)]

\* Variant of form_sos that tests the indices against the size only, not
\* against 0.
form_sos_NoLowerBound(b, n, r, c, dr, dc) ==
    IF ~(r < n /\ c < n
         /\ r + dr < n /\ c + dc < n
         /\ r + 2*dr < n /\ c + 2*dc < n)
    THEN FALSE
    ELSE subscript(subscript(b, r), c) = "S"
         /\ subscript(subscript(b, r + dr), c + dc) = "O"
         /\ subscript(subscript(b, r + 2*dr), c + 2*dc) = "S"

form_sos(b, n, r, c, dr, dc) ==
    IF ~(in_bounds(n, r, c)
         /\ in_bounds(n, r + dr, c + dc)
         /\ in_bounds(n, r + 2*dr, c + 2*dc))
    THEN FALSE
    ELSE subscript(subscript(b, r), c) = "S"
         /\ subscript(subscript(b, r + dr), c + dc) = "O"
         /\ subscript(subscript(b, r + 2*dr), c + 2*dc) = "S"

\* The index pairs that form_sos reads, following the short-circuit "and".
form_sos_reads(b, n, r, c, dr, dc) ==
    IF ~(in_bounds(n, r, c)
         /\ in_bounds(n, r + dr, c + dc)
         /\ in_bounds(n, r + 2*dr, c + 2*dc))
    THEN {}
    ELSE { <<r, c>> }
         \cup (IF subscript(subscript(b, r), c) = "S"
               THEN { <<r + dr, c + dc>> } ELSE {})
         \cup (IF subscript(subscript(b, r), c) = "S"
                  /\ subscript(subscript(b, r + dr), c + dc) = "O"
               THEN { <<r + 2*dr, c + 2*dc>> } ELSE {})

directions == << <<0, 1>>, <<1, 0>>, <<1, 1>>, <<1, -1>> >>

\* Variant of the loop body that reports a line of the negated direction
\* from its far end to the placed cell.
ScanDirection_FarEndFirst(b, n, r, c, d) ==
    (IF form_sos(b, n, r, c, d[1], d[2])
     THEN << Tuple(<<r, c, r + 2*d[1], c + 2*d[2]>>) >> ELSE <<>>)
    \o
    (IF form_sos(b, n, r, c, -d[1], -d[2])
     THEN << Tuple(<<r - 2*d[1], c - 2*d[2], r, c>>) >> ELSE <<>>)

\* The candidate lines of one direction pair, in the order they are appended.
ScanDirection(b, n, r, c, d) ==
    (IF form_sos(b, n, r, c, d[1], d[2])
     THEN << Tuple(<<r, c, r + 2*d[1], c + 2*d[2]>>) >> ELSE <<>>)
    \o
    (IF form_sos(b, n, r, c, -d[1], -d[2])
     THEN << Tuple(<<r, c, r - 2*d[1], c - 2*d[2]>>) >> ELSE <<>>)

RECURSIVE ScanAll(_, _, _, _, _)
ScanAll(b, n, r, c, i) ==
    IF i > Len(directions) THEN <<>>
    ELSE ScanDirection(b, n, r, c, directions[i]) \o ScanAll(b, n, r, c, i + 1)

\* "unique": keep the first occurrence of every element.
RECURSIVE Unique(_, _)
Unique(s, acc) ==
    IF s = <<>> THEN acc
    ELSE IF \E i \in 1 .. Len(acc) : acc[i] = Head(s)
         THEN Unique(Tail(s), acc)
         ELSE Unique(Tail(s), Append(acc, Head(s)))

check_for_sos(b, n, r, c) == Unique(ScanAll(b, n, r, c, 1), <<>>)

\* Variant of is_board_full that needs one letter more than there are cells.
is_board_full_OneMore(cnt, n) == cnt > n * n

is_board_full(cnt, n) == cnt >= n * n

\* Variant of record_move that stores the column as the row and the row as
\* the column.
record_move_SwapCell(h, player, r, c, letter, sos_lines) ==
    Append(h, [player |-> player, r |-> c, c |-> r, letter |-> letter,
               sos |-> [i \in 1 .. Len(sos_lines) |-> List(sos_lines[i].items)]])

record_move(h, player, r, c, letter, sos_lines) ==
    Append(h, [player |-> player, r |-> r, c |-> c, letter |-> letter,
               sos |-> [i \in 1 .. Len(sos_lines) |-> List(sos_lines[i].items)]])

(***************************************************************************)
(* Construction: BaseSOSGame.__init__ + reset_game, then the subclass      *)
(* field.  The mode is the class that was instantiated.                    *)
(***************************************************************************)
Init ==
    /\ mode \in {"simple", "general"}
    /\ \E size \in CtorSizes : board_size = Max(MinBoardSize, size)
    /\ board = EmptyGrid(board_size)
    /\ current_turn = "blue"
    /\ move_count = 0
    /\ game_over = FALSE
    /\ last_sos_lines = <<>>
    /\ last_move_player = None
    /\ owner_board = EmptyGrid(board_size)
    /\ move_history = <<>>
    /\ winner = None
    /\ scores = [blue |-> 0, red |-> 0]
    /\ ret = FALSE
    /\ raised = FALSE
    /\ skipped = 0
    /\ imports = 0
    /\ resets = 0

\* Variant of SimpleSOSGame.make_move without the game_over test.
SimpleMakeMove_NoOverCheck(r, c, raw) ==
    /\ mode = "simple"
    /\ LET letter == upper(strip(raw)) IN
       IF letter \notin {<<"S">>, <<"O">>}
          \/ ~cell_empty(board, board_size, r, c)
       THEN /\ ret' = FALSE
            /\ UNCHANGED engine
       ELSE LET b1 == [board EXCEPT ![r][c] = letter[1]]
                sos_lines == check_for_sos(b1, board_size, r, c)
            IN /\ board' = b1
               /\ move_count' = move_count + 1
               /\ owner_board' = [owner_board EXCEPT ![r][c] = current_turn]
               /\ last_move_player' = current_turn
               /\ last_sos_lines' = sos_lines
               /\ move_history' = record_move(move_history, current_turn,
                                              r, c, letter[1], sos_lines)
               /\ IF sos_lines # <<>>
                  THEN /\ winner' = current_turn
                       /\ game_over' = TRUE
                       /\ UNCHANGED current_turn
                  ELSE /\ current_turn' = toggle_turn(current_turn)
                       /\ game_over' = is_board_full(move_count + 1, board_size)
                       /\ UNCHANGED winner
               /\ ret' = TRUE
               /\ UNCHANGED <<mode, board_size, scores>>

(***************************************************************************)
(* SimpleSOSGame.make_move                                                 *)
(***************************************************************************)
SimpleMakeMove(r, c, raw) ==
    /\ mode = "simple"
    /\ LET letter == upper(strip(raw)) IN
       IF game_over
       THEN /\ ret' = FALSE
            /\ UNCHANGED engine
       ELSE IF letter \notin {<<"S">>, <<"O">>}
               \/ ~cell_empty(board, board_size, r, c)
       THEN /\ ret' = FALSE
            /\ UNCHANGED engine
       ELSE LET b1 == [board EXCEPT ![r][c] = letter[1]]
                sos_lines == check_for_sos(b1, board_size, r, c)
            IN /\ board' = b1
               /\ move_count' = move_count + 1
               /\ owner_board' = [owner_board EXCEPT ![r][c] = current_turn]
               /\ last_move_player' = current_turn
               /\ last_sos_lines' = sos_lines
               /\ move_history' = record_move(move_history, current_turn,
                                              r, c, letter[1], sos_lines)
               /\ IF sos_lines # <<>>
                  THEN /\ winner' = current_turn
                       /\ game_over' = TRUE
                       /\ UNCHANGED current_turn
                  ELSE /\ current_turn' = toggle_turn(current_turn)
                       /\ game_over' = is_board_full(move_count + 1, board_size)
                       /\ UNCHANGED winner
               /\ ret' = TRUE
               /\ UNCHANGED <<mode, board_size, scores>>

\* Variant of GeneralSOSGame.make_move that records the owner after the
\* turn has been toggled.
GeneralMakeMove_OwnerAfterToggle(r, c, raw) ==
    /\ mode = "general"
    /\ LET letter == upper(strip(raw)) IN
       IF game_over
       THEN /\ ret' = FALSE
            /\ UNCHANGED engine
       ELSE IF letter \notin {<<"S">>, <<"O">>}
               \/ ~cell_empty(board, board_size, r, c)
       THEN /\ ret' = FALSE
            /\ UNCHANGED engine
       ELSE LET b1 == [board EXCEPT ![r][c] = letter[1]]
                sos_lines == check_for_sos(b1, board_size, r, c)
            IN /\ board' = b1
               /\ move_count' = move_count + 1
               /\ owner_board' = [owner_board EXCEPT
                                     ![r][c] = toggle_turn(current_turn)]
               /\ last_move_player' = current_turn
               /\ last_sos_lines' = sos_lines
               /\ scores' = IF sos_lines # <<>>
                            THEN [scores EXCEPT ![current_turn] = @ + Len(sos_lines)]
                            ELSE scores
               /\ move_history' = record_move(move_history, current_turn,
                                              r, c, letter[1], sos_lines)
               /\ current_turn' = toggle_turn(current_turn)
               /\ game_over' = (move_count + 1 >= board_size * board_size)
               /\ ret' = TRUE
               /\ UNCHANGED <<mode, board_size, winner>>

(***************************************************************************)
(* GeneralSOSGame.make_move                                                *)
(***************************************************************************)
GeneralMakeMove(r, c, raw) ==
    /\ mode = "general"
    /\ LET letter == upper(strip(raw)) IN
       IF game_over
       THEN /\ ret' = FALSE
            /\ UNCHANGED engine
       ELSE IF letter \notin {<<"S">>, <<"O">>}
               \/ ~cell_empty(board, board_size, r, c)
       THEN /\ ret' = FALSE
            /\ UNCHANGED engine
       ELSE LET b1 == [board EXCEPT ![r][c] = letter[1]]
                sos_lines == check_for_sos(b1, board_size, r, c)
            IN /\ board' = b1
               /\ move_count' = move_count + 1
               /\ owner_board' = [owner_board EXCEPT ![r][c] = current_turn]
               /\ last_move_player' = current_turn
               /\ last_sos_lines' = sos_lines
               /\ scores' = IF sos_lines # <<>>
                            THEN [scores EXCEPT ![current_turn] = @ + Len(sos_lines)]
                            ELSE scores
               /\ move_history' = record_move(move_history, current_turn,
                                              r, c, letter[1], sos_lines)
               /\ current_turn' = toggle_turn(current_turn)
               /\ game_over' = (move_count + 1 >= board_size * board_size)
               /\ ret' = TRUE
               /\ UNCHANGED <<mode, board_size, winner>>

\* Variant of show_general_result that gives a tie to Blue.
show_general_result_TieToBlue(sc) ==
    IF sc["blue"] >= sc["red"] THEN "Blue"
    ELSE IF sc["red"] > sc["blue"] THEN "Red"
    ELSE None

(***************************************************************************)
(* SOSApp.show_general_result: the result announced for a General game.    *)
(***************************************************************************)
show_general_result(sc) ==
    IF sc["blue"] > sc["red"] THEN "Blue"
    ELSE IF sc["red"] > sc["blue"] THEN "Red"
    ELSE None

(***************************************************************************)
(* The caller.                                                             *)
(***************************************************************************)
\* The number of empty cells before (r, c) in row-major order.
Rank(r, c) ==
    Cardinality({ cell \in (0 .. board_size - 1) \X (0 .. board_size - 1) :
                    /\ cell[1] * board_size + cell[2] < r * board_size + c
                    /\ board[cell[1]][cell[2]] = None })

\* Calls that cannot place a letter are always possible; a placement must
\* stay within what the caller may still pass over.
CallerMay(r, c) ==
    cell_empty(board, board_size, r, c) => skipped + Rank(r, c) <= MaxSkip

Next ==
    \E x \in Inputs :
        /\ CallerMay(x[1], x[2])
        /\ \/ SimpleMakeMove(x[1], x[2], x[3])
           \/ GeneralMakeMove(x[1], x[2], x[3])
        /\ raised' = FALSE
        /\ skipped' = IF ret' THEN skipped + Rank(x[1], x[2]) ELSE skipped
        /\ UNCHANGED <<imports, resets>>

Spec == Init /\ [][Next]_vars

(***************************************************************************)
(* Geometry of the game, stated independently of the detection code.       *)
(***************************************************************************)
Cells == (0 .. board_size - 1) \X (0 .. board_size - 1)

\* A line is the set of its two end cells; they lie two steps apart in a
\* row, a column or a diagonal.
AllLines ==
    { {a, z} : a \in Cells, z \in Cells } \cap
    { l \in SUBSET Cells :
        \E a \in l, z \in l :
            /\ a # z
            /\ l = {a, z}
            /\ (a[1] - z[1]) \in {-2, 0, 2}
            /\ (a[2] - z[2]) \in {-2, 0, 2} }

Ends(l) == CHOOSE p \in l \X l : p[1] # p[2]

Mid(l) == << (Ends(l)[1][1] + Ends(l)[2][1]) \div 2,
             (Ends(l)[1][2] + Ends(l)[2][2]) \div 2 >>

\* The S-O-S lines present on board b.
SOSLinesOn(b) ==
    { l \in AllLines :
        /\ \A e \in l : b[e[1]][e[2]] = "S"
        /\ b[Mid(l)[1]][Mid(l)[2]] = "O" }

\* Those of them that contain cell (r, c), as an end or as the middle.
LinesThrough(b, r, c) ==
    { l \in SOSLinesOn(b) : <<r, c>> \in l \/ <<r, c>> = Mid(l) }

\* The lines a list of endpoint quadruples stands for.
Reported(lines) ==
    { { <<lines[i].items[1], lines[i].items[2]>>,
        <<lines[i].items[3], lines[i].items[4]>> } : i \in 1 .. Len(lines) }

\* The board as it was after the first k recorded moves.
BoardAfter(k) ==
    [r \in 0 .. board_size - 1 |-> [c \in 0 .. board_size - 1 |->
        IF \E i \in 1 .. k : move_history[i].r = r /\ move_history[i].c = c
        THEN (CHOOSE e \in { move_history[i] : i \in 1 .. k } :
                 e.r = r /\ e.c = c).letter
        ELSE None]]

\* The lines completed by the k-th recorded move.
FormedBy(k) == LinesThrough(BoardAfter(k), move_history[k].r, move_history[k].c)

LastMove == move_history[Len(move_history)]

\* A raw letter that strips and upper-cases to "S" or "O": one s/o
\* character with nothing but whitespace around it.
NormalizesToSO(raw) ==
    \E i \in 1 .. Len(raw) :
        /\ raw[i] \in {"S", "s", "O", "o"}
        /\ \A j \in 1 .. Len(raw) : j # i => raw[j] \in Whitespace

Other(p) == IF p = "blue" THEN "red" ELSE "blue"

\* A step in which make_move placed a letter.
Placed == Len(move_history') = Len(move_history) + 1

(***************************************************************************)
(* C1: after every successful make_move(r, c, letter) the lines reported   *)
(* for the move (last_sos_lines and the sos field of the new history       *)
(* entry) are exactly the S-O-S lines on the board that contain (r, c),    *)
(* whether the placed letter is an end S or the middle O, each once.       *)
(***************************************************************************)
C1_ReportsExactlyLinesThroughCell ==
    move_history # <<>> =>
        LET through == LinesThrough(board, LastMove.r, LastMove.c) IN
        /\ Reported(last_sos_lines) = through
        /\ Reported(LastMove.sos) = through
        /\ Len(last_sos_lines) = Cardinality(through)
        /\ Len(LastMove.sos) = Cardinality(through)

(***************************************************************************)
(* C2: in Simple mode, whenever the board holds an S-O-S line the game is  *)
(* over and the winner is the player whose placement completed the first   *)
(* such line.                                                              *)
(***************************************************************************)
FirstLineMove ==
    CHOOSE k \in 1 .. Len(move_history) :
        /\ SOSLinesOn(BoardAfter(k)) # {}
        /\ \A j \in 1 .. k - 1 : SOSLinesOn(BoardAfter(j)) = {}

C2_SimpleLineEndsGame ==
    (mode = "simple" /\ SOSLinesOn(board) # {}) =>
        /\ game_over
        /\ winner = move_history[FirstLineMove].player

(***************************************************************************)
(* C3: in General mode the two scores add up to the number of distinct     *)
(* S-O-S lines on the board, and every line is credited to the player      *)
(* whose placement completed it.                                           *)
(***************************************************************************)
CompletedBy(p) ==
    UNION { FormedBy(k) : k \in { i \in 1 .. Len(move_history) :
                                     move_history[i].player = p } }

C3_GeneralScoresCountLines ==
    mode = "general" =>
        /\ scores["blue"] + scores["red"] = Cardinality(SOSLinesOn(board))
        /\ \A p \in Players : scores[p] = Cardinality(CompletedBy(p))

(***************************************************************************)
(* C4: a successful Simple move changes current_turn if and only if the    *)
(* move formed no S-O-S line; a successful General move always hands the   *)
(* turn to the other player.                                               *)
(***************************************************************************)
C4_TurnAlternation ==
    [][Placed =>
         LET e == move_history'[Len(move_history')]
             formed == LinesThrough(board', e.r, e.c)
         IN /\ mode = "simple" =>
                  ((current_turn' # current_turn) <=> (formed = {}))
            /\ mode = "general" => current_turn' = Other(current_turn)]_vars

(***************************************************************************)
(* C5: in General mode no score ever decreases; a successful move raises   *)
(* the acting player's score by exactly the number of S-O-S lines formed   *)
(* by the placement and leaves the other score alone; a rejected move      *)
(* changes neither score.                                                  *)
(***************************************************************************)
C5_GeneralScoreMonotone ==
    [][mode = "general" =>
         /\ \A p \in Players : scores'[p] >= scores[p]
         /\ Placed =>
              LET e == move_history'[Len(move_history')]
                  formed == LinesThrough(board', e.r, e.c)
              IN /\ scores'[current_turn] =
                        scores[current_turn] + Cardinality(formed)
                 /\ scores'[Other(current_turn)] = scores[Other(current_turn)]
         /\ ~Placed => scores' = scores]_vars

(***************************************************************************)
(* Calls, as the claims about single calls see them.                       *)
(***************************************************************************)
Call(r, c, raw) == SimpleMakeMove(r, c, raw) \/ GeneralMakeMove(r, c, raw)

OutOfGrid(r, c) == r < 0 \/ c < 0 \/ r >= board_size \/ c >= board_size

Occupied(r, c) == ~OutOfGrid(r, c) /\ board[r][c] \in {"S", "O"}

\* The letter a well-formed raw letter stands for.
NormalLetter(raw) == IF \E i \in 1 .. Len(raw) : raw[i] \in {"S", "s"} THEN "S" ELSE "O"

(***************************************************************************)
(* C6: a rejected make_move has no side effects: while the game is not     *)
(* over, a call whose letter does not normalize to S or O, or whose cell   *)
(* is out of bounds (negative indices included) or occupied, returns False *)
(* and leaves every field of the engine unchanged.                         *)
(***************************************************************************)
C6_RejectedMoveNoSideEffects ==
    [][\/ (ret' = FALSE /\ UNCHANGED engine)
       \/ \A x \in Inputs :
            ~ /\ ~game_over
              /\ \/ ~NormalizesToSO(x[3])
                 \/ OutOfGrid(x[1], x[2])
                 \/ Occupied(x[1], x[2])
              /\ Call(x[1], x[2], x[3])]_vars

C6_Witness ==
    /\ ret = FALSE
    /\ ~game_over
    /\ move_count > 0

(***************************************************************************)
(* C7: once game_over is true every later make_move returns False and      *)
(* changes nothing: game_over, the outcome, the board, the turn pointer    *)
(* and the move history are frozen.                                        *)
(***************************************************************************)
C7_TerminalExclusivity ==
    [][game_over => (ret' = FALSE /\ UNCHANGED engine)]_vars

C7_Witness ==
    /\ game_over
    /\ ret = FALSE
    /\ mode = "simple"
    /\ winner # None
    /\ move_count < board_size * board_size

(***************************************************************************)
(* C8: a successful make_move(r, c, letter) sets board[r][c] to the        *)
(* normalized letter and owner_board[r][c] to the player whose turn it     *)
(* was, and changes no other cell; a filled cell never changes its letter  *)
(* or owner again and cell_empty stays false for it; a cell has an owner   *)
(* if and only if it holds a letter.                                       *)
(***************************************************************************)
OwnerIffLetter ==
    \A cell \in Cells :
        (owner_board[cell[1]][cell[2]] # None) <=> (board[cell[1]][cell[2]] # None)

C8_MonotonicOccupancy ==
    [][\/ /\ ret' = FALSE
          /\ UNCHANGED <<board, owner_board>>
       \/ /\ ret' = TRUE
          /\ OwnerIffLetter
          /\ OwnerIffLetter'
          /\ \A cell \in Cells :
               board[cell[1]][cell[2]] # None =>
                  /\ board'[cell[1]][cell[2]] = board[cell[1]][cell[2]]
                  /\ owner_board'[cell[1]][cell[2]] = owner_board[cell[1]][cell[2]]
                  /\ ~cell_empty(board', board_size, cell[1], cell[2])
          /\ \A x \in Inputs :
               Call(x[1], x[2], x[3]) =>
                  /\ board' = [board EXCEPT ![x[1]][x[2]] = NormalLetter(x[3])]
                  /\ owner_board' = [owner_board EXCEPT
                                        ![x[1]][x[2]] = current_turn]
                  /\ ~cell_empty(board', board_size, x[1], x[2])]_vars

C8_Witness ==
    /\ move_count >= 3
    /\ ret = TRUE
    /\ board[move_history[1].r][move_history[1].c] = move_history[1].letter
    /\ owner_board[move_history[1].r][move_history[1].c] = "blue"
    /\ owner_board[move_history[2].r][move_history[2].c] = "red"

(***************************************************************************)
(* C9: a Simple game whose board fills up with no move having formed an    *)
(* S-O-S line ends as a draw (game_over, winner None); if the move that    *)
(* fills the last cell forms a line, the game ends as a win for the mover. *)
(***************************************************************************)
C9_SimpleDraw ==
    (mode = "simple" /\ move_count = board_size * board_size) =>
        /\ game_over
        /\ (\A k \in 1 .. Len(move_history) : FormedBy(k) = {}) => winner = None
        /\ FormedBy(Len(move_history)) # {} => winner = LastMove.player

(***************************************************************************)
(* C10: in General mode game_over holds exactly when the board is full     *)
(* (forming lines never ends the game early), and the result announced at  *)
(* that point is the player with the strictly higher score, or a draw on   *)
(* equal scores.                                                           *)
(***************************************************************************)
C10_GeneralEndsWhenFull ==
    mode = "general" =>
        /\ game_over <=> (move_count = board_size * board_size)
        /\ game_over =>
             /\ (show_general_result(scores) = "Blue") <=> (scores["blue"] > scores["red"])
             /\ (show_general_result(scores) = "Red") <=> (scores["red"] > scores["blue"])
             /\ (show_general_result(scores) = None) <=> (scores["red"] = scores["blue"])

C10_Witness ==
    /\ mode = "general"
    /\ game_over
    /\ scores["red"] > scores["blue"]
    /\ scores["blue"] > 0
    /\ show_general_result(scores) = "Red"

(***************************************************************************)
(* Record codec: export_record, the JSON text it produces, and the part of *)
(* import_record that loads the moves.  A JSON document is modelled by its *)
(* syntax tree: numbers and strings are themselves, null is Null, an array *)
(* is Array(items), an object is a record.  Lists of entries and of lines  *)
(* are sequences; only the quadruples carry their Python type.             *)
(***************************************************************************)
Null == "null"

\* A Python value whose type import_record inspects carries its type: an
\* int, or a str given by its characters.  A dict is a record and a list is
\* a sequence.
PyInt(n) == [t |-> "int", v |-> n]

PyStr(s) == [t |-> "str", v |-> s]

IsDict(x) == "t" \notin DOMAIN x

\* dict.get(key, default)
get(d, key, default) == IF key \in DOMAIN d THEN d[key] ELSE default

Array(x) == [kind |-> "array", items |-> x]

\* json.dumps of a history entry: lists and tuples both become arrays.
JsonDumpsEntry(e) ==
    [player |-> e.player, r |-> e.r, c |-> e.c, letter |-> e.letter,
     sos |-> [i \in 1 .. Len(e.sos) |-> Array(e.sos[i].items)]]

\* json.loads of a history entry: arrays become lists.
JsonLoadsEntry(j) ==
    [player |-> j.player, r |-> j.r, c |-> j.c, letter |-> j.letter,
     sos |-> [i \in 1 .. Len(j.sos) |-> List(j.sos[i].items)]]

JsonDumpsNone(v) == IF v = None THEN Null ELSE v

JsonLoadsNone(j) == IF j = Null THEN None ELSE j

\* BaseSOSGame.export_record followed by the subclass's update: the JSON
\* text returned for the current game.
export_record ==
    IF mode = "simple"
    THEN [board_size |-> board_size,
          move_history |-> [i \in 1 .. Len(move_history) |->
                               JsonDumpsEntry(move_history[i])],
          mode |-> "simple",
          winner |-> JsonDumpsNone(winner)]
    ELSE [board_size |-> board_size,
          move_history |-> [i \in 1 .. Len(move_history) |->
                               JsonDumpsEntry(move_history[i])],
          mode |-> "general",
          scores |-> scores]

\* json.loads of an exported text: the payload handed to import_record.
JsonLoads(doc) ==
    IF doc.mode = "simple"
    THEN [board_size |-> PyInt(doc.board_size),
          move_history |-> [i \in 1 .. Len(doc.move_history) |->
                               JsonLoadsEntry(doc.move_history[i])],
          mode |-> doc.mode,
          winner |-> JsonLoadsNone(doc.winner)]
    ELSE [board_size |-> PyInt(doc.board_size),
          move_history |-> [i \in 1 .. Len(doc.move_history) |->
                               JsonLoadsEntry(doc.move_history[i])],
          mode |-> doc.mode,
          scores |-> doc.scores]

\* One round of the loop of import_record on a dict: a copy of the entry
\* whose "sos" holds the lines as tuples (no line when the key is missing).
ImportEntry(mv) ==
    LET sos == get(mv, "sos", <<>>) IN
    [k \in DOMAIN mv \cup {"sos"} |->
        IF k = "sos" THEN [i \in 1 .. Len(sos) |-> Tuple(sos[i].items)]
        ELSE mv[k]]

\* The loop of import_record over entries that are all dicts.
ImportMoves(moves) == [i \in 1 .. Len(moves) |-> ImportEntry(moves[i])]

(***************************************************************************)
(* C11: for every game state reached by make_move calls, parsing the       *)
(* output of export_record and passing it to import_record yields a        *)
(* move_history equal, field for field and in the same order, to the       *)
(* move_history before the export.                                         *)
(***************************************************************************)
C11_RoundTripHistory ==
    ImportMoves(JsonLoads(export_record).move_history) = move_history

(***************************************************************************)
(* A second engine object, as a value: the game that SOSApp.on_replay_file *)
(* constructs and drives.  Its fields are those of the engine, and ret is  *)
(* the value returned by the last make_move on it.                         *)
(***************************************************************************)
FreshGame(m, size) ==
    [mode |-> m,
     board_size |-> Max(MinBoardSize, size),
     board |-> EmptyGrid(Max(MinBoardSize, size)),
     current_turn |-> "blue",
     move_count |-> 0,
     game_over |-> FALSE,
     last_sos_lines |-> <<>>,
     last_move_player |-> None,
     owner_board |-> EmptyGrid(Max(MinBoardSize, size)),
     move_history |-> <<>>,
     winner |-> None,
     scores |-> [blue |-> 0, red |-> 0],
     ret |-> FALSE]

\* SimpleSOSGame.make_move on the game g.
simple_make_move(g, r, c, raw) ==
    LET letter == upper(strip(raw)) IN
    IF g.game_over
    THEN [g EXCEPT !.ret = FALSE]
    ELSE IF letter \notin {<<"S">>, <<"O">>}
            \/ ~cell_empty(g.board, g.board_size, r, c)
    THEN [g EXCEPT !.ret = FALSE]
    ELSE LET b1 == [g.board EXCEPT ![r][c] = letter[1]]
             sos_lines == check_for_sos(b1, g.board_size, r, c)
         IN [g EXCEPT
                !.board = b1,
                !.move_count = g.move_count + 1,
                !.owner_board = [g.owner_board EXCEPT ![r][c] = g.current_turn],
                !.last_move_player = g.current_turn,
                !.last_sos_lines = sos_lines,
                !.move_history = record_move(g.move_history, g.current_turn,
                                             r, c, letter[1], sos_lines),
                !.winner = IF sos_lines # <<>> THEN g.current_turn ELSE g.winner,
                !.game_over = IF sos_lines # <<>> THEN TRUE
                              ELSE is_board_full(g.move_count + 1, g.board_size),
                !.current_turn = IF sos_lines # <<>> THEN g.current_turn
                                 ELSE toggle_turn(g.current_turn),
                !.ret = TRUE]

\* GeneralSOSGame.make_move on the game g.
general_make_move(g, r, c, raw) ==
    LET letter == upper(strip(raw)) IN
    IF g.game_over
    THEN [g EXCEPT !.ret = FALSE]
    ELSE IF letter \notin {<<"S">>, <<"O">>}
            \/ ~cell_empty(g.board, g.board_size, r, c)
    THEN [g EXCEPT !.ret = FALSE]
    ELSE LET b1 == [g.board EXCEPT ![r][c] = letter[1]]
             sos_lines == check_for_sos(b1, g.board_size, r, c)
         IN [g EXCEPT
                !.board = b1,
                !.move_count = g.move_count + 1,
                !.owner_board = [g.owner_board EXCEPT ![r][c] = g.current_turn],
                !.last_move_player = g.current_turn,
                !.last_sos_lines = sos_lines,
                !.scores = IF sos_lines # <<>>
                           THEN [g.scores EXCEPT
                                    ![g.current_turn] = @ + Len(sos_lines)]
                           ELSE g.scores,
                !.move_history = record_move(g.move_history, g.current_turn,
                                             r, c, letter[1], sos_lines),
                !.current_turn = toggle_turn(g.current_turn),
                !.game_over = (g.move_count + 1 >= g.board_size * g.board_size),
                !.ret = TRUE]

\* self.game.make_move: the method of the class that was instantiated.
make_move(g, r, c, raw) ==
    IF g.mode = "simple" THEN simple_make_move(g, r, c, raw)
    ELSE general_make_move(g, r, c, raw)

\* One round of replay_moves: force the turn to the entry's player, then
\* play the entry.
replay_move(g, mv) ==
    make_move([g EXCEPT !.current_turn = mv.player], mv.r, mv.c, <<mv.letter>>)

\* The games that replay_moves goes through from g, one per entry from idx.
RECURSIVE replay_moves(_, _, _)
replay_moves(g, normalized, idx) ==
    IF idx > Len(normalized) THEN <<>>
    ELSE LET g1 == replay_move(g, normalized[idx])
         IN <<g1>> \o replay_moves(g1, normalized, idx + 1)

\* The engine seen as a game value.
ThisGame ==
    [mode |-> mode, board_size |-> board_size, board |-> board,
     current_turn |-> current_turn, move_count |-> move_count,
     game_over |-> game_over, last_sos_lines |-> last_sos_lines,
     last_move_player |-> last_move_player, owner_board |-> owner_board,
     move_history |-> move_history, winner |-> winner, scores |-> scores,
     ret |-> ret]

\* The quadruples of a list of lines, whatever sequence type carries them.
Quads(lines) == [i \in 1 .. Len(lines) |-> lines[i].items]

(***************************************************************************)
(* The games played by make_move calls: the caller of Spec, with the calls *)
(* that place a letter only.  The engine goes through the same states as   *)
(* under Spec, a rejected call changing none of its fields.                *)
(***************************************************************************)
NextPlayed == Next /\ ret'

SpecPlayed == Init /\ [][NextPlayed]_vars

(***************************************************************************)
(* C12: replaying the move history of any game played by make_move on a    *)
(* fresh engine of the same mode and board size, forcing current_turn to   *)
(* each entry's player before the call, makes every call succeed,          *)
(* reproduces at each step the lines recorded in the entry, and ends with  *)
(* the board, ownership map, move_count, game_over flag, winner and scores *)
(* of the original game.                                                   *)
(***************************************************************************)
C12_ReplayFidelity ==
    LET trace == replay_moves(FreshGame(mode, board_size), move_history, 1)
        final == IF trace = <<>> THEN FreshGame(mode, board_size)
                 ELSE trace[Len(trace)]
    IN /\ \A k \in 1 .. Len(trace) :
             /\ trace[k].ret = TRUE
             /\ Quads(trace[k].last_sos_lines) = Quads(move_history[k].sos)
       /\ final.board = board
       /\ final.owner_board = owner_board
       /\ final.move_count = move_count
       /\ final.game_over = game_over
       /\ final.winner = winner
       /\ final.scores = scores

\* A finished game with a recorded line and a score has been replayed.
C12_Witness ==
    /\ game_over
    /\ Len(move_history) >= 3
    /\ \E k \in 1 .. Len(move_history) : move_history[k].sos # <<>>
    /\ replay_moves(FreshGame(mode, board_size), move_history, 1)
           [Len(move_history)].game_over

\* On every call the pure make_move and the engine's action agree.
MakeMoveAgrees ==
    [][\E x \in Inputs : make_move(ThisGame, x[1], x[2], x[3]) = ThisGame']_vars

(***************************************************************************)
(* import_record.  int(x) succeeds on an int and on a str that is a        *)
(* decimal numeral, and raises on any other str.                           *)
(***************************************************************************)
Digits == <<"0", "1", "2", "3", "4", "5", "6", "7", "8", "9">>

IsDigit(ch) == \E d \in 1 .. Len(Digits) : Digits[d] = ch

DigitValue(ch) == (CHOOSE d \in 1 .. Len(Digits) : Digits[d] = ch) - 1

RECURSIVE Decimal(_)
Decimal(s) ==
    IF s = <<>> THEN 0
    ELSE 10 * Decimal(SubSeq(s, 1, Len(s) - 1)) + DigitValue(s[Len(s)])

int_raises(x) ==
    x.t = "str" /\ (strip(x.v) = <<>> \/ \E i \in 1 .. Len(strip(x.v)) :
                                            ~IsDigit(strip(x.v)[i]))

int(x) == IF x.t = "int" THEN x.v ELSE Decimal(strip(x.v))

\* The number of rounds the loop of import_record completes: it stops with
\* an exception at the first entry that is not a dict.
RECURSIVE Loaded(_, _)
Loaded(moves, i) ==
    IF i > Len(moves) \/ ~IsDict(moves[i]) THEN i - 1
    ELSE Loaded(moves, i + 1)

\* import_record(payload) of the engine's class: BaseSOSGame.import_record,
\* followed for a General game by the scores of the payload.
ImportRecord(payload) ==
    LET size == get(payload, "board_size", PyInt(board_size))
        moves == get(payload, "move_history", <<>>)
        n == Loaded(moves, 1)
    IN \* reset_game(), on the grid size of before the call
       /\ board' = EmptyGrid(board_size)
       /\ current_turn' = "blue"
       /\ move_count' = 0
       /\ game_over' = FALSE
       /\ last_sos_lines' = <<>>
       /\ last_move_player' = None
       /\ owner_board' = EmptyGrid(board_size)
       /\ IF int_raises(size)
          THEN /\ move_history' = <<>>
               /\ raised' = TRUE
               /\ UNCHANGED <<board_size, scores>>
          ELSE /\ board_size' = int(size)
               /\ move_history' = ImportMoves(SubSeq(moves, 1, n))
               /\ raised' = (n < Len(moves))
               /\ scores' = IF /\ mode = "general"
                               /\ n = Len(moves)
                               /\ "scores" \in DOMAIN payload
                               /\ IsDict(payload.scores)
                            THEN [blue |-> get(payload.scores, "blue", 0),
                                  red |-> get(payload.scores, "red", 0)]
                            ELSE scores
       /\ UNCHANGED <<mode, winner, ret>>

\* Entries of the payloads.
Entry1 == [player |-> "blue", r |-> 0, c |-> 0, letter |-> "S", sos |-> <<>>]

Entry2 == [player |-> "red", r |-> 0, c |-> 1, letter |-> "O", sos |-> <<>>]

Entry3 == [player |-> "blue", r |-> 0, c |-> 2, letter |-> "S",
           sos |-> << List(<<0, 2, 0, 0>>) >>]

\* The payloads handed to import_record: without any of the keys read, of a
\* declared size below the minimum, with scores and a size given as a
\* numeral, with a size that is no number, and with an entry that is no
\* dict.  No payload declares a size above the constructed one.
WellFormed ==
    { [mode |-> "simple"],
      [board_size |-> PyInt(2), move_history |-> <<Entry1, Entry2, Entry3>>],
      [board_size |-> PyStr(<<" ", "3">>), move_history |-> <<Entry1>>,
       scores |-> [blue |-> 2, red |-> 1]] }

Malformed ==
    { [board_size |-> PyStr(<<"a", "b", "c">>), move_history |-> <<Entry1>>],
      [board_size |-> PyInt(3), move_history |-> <<Entry1, PyInt(5), Entry2>>] }

Payloads == WellFormed \cup Malformed

\* reset_game builds the grid before import_record sets board_size, so a
\* payload that declares more rows than the engine has leaves a grid smaller
\* than board_size, on which make_move ends with an IndexError.  The caller
\* of the model keeps to payloads whose size fits the grid and to
\* MaxImports calls, and passes over no cell after an import.
CallerMayImport(payload) ==
    LET size == get(payload, "board_size", PyInt(board_size))
    IN /\ imports < MaxImports
       /\ ~int_raises(size) => int(size) <= board_size

NextImport ==
    \/ Next
    \/ \E payload \in Payloads :
          /\ CallerMayImport(payload)
          /\ ImportRecord(payload)
          /\ imports' = imports + 1
          /\ skipped' = MaxSkip
          /\ UNCHANGED resets

SpecImport == Init /\ [][NextImport]_vars

(***************************************************************************)
(* C13: after import_record(payload) the engine is a fresh game of the     *)
(* payload's declared board size: board_size is the declared size, board   *)
(* and owner_board are empty board_size x board_size grids, move_count is  *)
(* 0, current_turn is blue, game_over is false and move_history holds the  *)
(* payload's entries in order, so that every cell of the declared size can *)
(* be played.                                                              *)
(***************************************************************************)
SameEntries(h, moves) ==
    /\ Len(h) = Len(moves)
    /\ \A k \in 1 .. Len(moves) :
          /\ h[k].player = moves[k].player
          /\ h[k].r = moves[k].r
          /\ h[k].c = moves[k].c
          /\ h[k].letter = moves[k].letter
          /\ Quads(h[k].sos) = Quads(moves[k].sos)

C13_ImportGivesFreshGame ==
    [][\A payload \in WellFormed :
          ImportRecord(payload) =>
             /\ "board_size" \in DOMAIN payload =>
                   board_size' = int(payload.board_size)
             /\ DOMAIN board' = 0 .. board_size' - 1
             /\ board' = EmptyGrid(board_size')
             /\ owner_board' = EmptyGrid(board_size')
             /\ move_count' = 0
             /\ current_turn' = "blue"
             /\ ~game_over'
             /\ SameEntries(move_history', get(payload, "move_history", <<>>))
             /\ \A r, c \in 0 .. board_size' - 1 :
                   cell_empty(board', board_size', r, c)]_vars

(***************************************************************************)
(* C14: import is atomic on malformed payloads: when board_size cannot be  *)
(* coerced to an integer or an entry of move_history has the wrong shape,  *)
(* import_record fails as a whole and the engine keeps its prior state; it *)
(* never leaves a partially loaded history or a game that was reset but    *)
(* not loaded.                                                             *)
(***************************************************************************)
C14_ImportAtomicOnMalformed ==
    [][\A payload \in Malformed :
          ImportRecord(payload) => raised' /\ UNCHANGED engine]_vars

(***************************************************************************)
(* C15: board_size is at least 3 in every reachable state, after           *)
(* construction with any size and after any sequence of make_move and      *)
(* import_record calls, including an import that declares a size below 3.  *)
(***************************************************************************)
C15_BoardSizeAtLeastMin == board_size >= MinBoardSize

(***************************************************************************)
(* C18: in General mode, after import_record(payload) the scores are       *)
(* {blue: 0, red: 0} when the payload carries no scores and the payload's  *)
(* scores when it does, whatever the scores were before the import.        *)
(***************************************************************************)
C18_GeneralImportScores ==
    [][\A payload \in WellFormed :
          mode = "general" /\ ImportRecord(payload) =>
             scores' = IF "scores" \in DOMAIN payload
                       THEN [blue |-> payload.scores.blue,
                             red |-> payload.scores.red]
                       ELSE [blue |-> 0, red |-> 0]]_vars

(***************************************************************************)
(* A scripted Simple game on a 3 x 3 board: blue places S at (0,0), O at   *)
(* (0,1) and S at (0,2) on its three turns, and red answers anywhere off   *)
(* the top row with a move that forms no line.                             *)
(***************************************************************************)
BlueScript == << <<0, 0, <<"S">> >>, <<0, 1, <<"O">> >>, <<0, 2, <<"S">> >> >>

InitScenario == Init /\ mode = "simple"

BlueScripted ==
    /\ current_turn = "blue"
    /\ ~game_over
    /\ move_count \div 2 + 1 <= Len(BlueScript)
    /\ LET x == BlueScript[move_count \div 2 + 1]
       IN SimpleMakeMove(x[1], x[2], x[3])
    /\ raised' = FALSE
    /\ UNCHANGED <<skipped, imports, resets>>

RedElsewhere ==
    /\ current_turn = "red"
    /\ ~game_over
    /\ \E r \in 1 .. 2, c \in 0 .. 2, raw \in GoodLetters :
          SimpleMakeMove(r, c, raw)
    /\ ret'
    /\ last_sos_lines' = <<>>
    /\ raised' = FALSE
    /\ UNCHANGED <<skipped, imports, resets>>

NextScenario == BlueScripted \/ RedElsewhere

SpecScenario == InitScenario /\ [][NextScenario]_vars

\* Blue has made its third move.
ScenarioPlayed == move_count = 2 * Len(BlueScript) - 1

\* The statement with the line given from (0,0) to (0,2).
C16_ScenarioLineFromFirstCell ==
    ScenarioPlayed =>
        /\ last_sos_lines = << Tuple(<<0, 0, 0, 2>>) >>
        /\ winner = "blue"
        /\ game_over

\* Red's two letters lie on a second window that ends in (0,2).
RedPreparedSecondLine ==
    \/ board[1][1] = "O" /\ board[2][0] = "S"
    \/ board[1][2] = "O" /\ board[2][2] = "S"

(***************************************************************************)
(* C16: in the scripted Simple 3 x 3 game, after blue's third move the     *)
(* first element of last_sos_lines is (0,2,0,0) (the line runs from the    *)
(* placed cell to its far end) and it is the only one unless red's two     *)
(* letters lie on a second window ending in (0,2); winner == "blue" and    *)
(* game_over is true.                                                      *)
(***************************************************************************)
C16_ScenarioBlueWins ==
    ScenarioPlayed =>
        /\ last_sos_lines # <<>>
        /\ last_sos_lines[1] = Tuple(<<0, 2, 0, 0>>)
        /\ ~RedPreparedSecondLine => Len(last_sos_lines) = 1
        /\ RedPreparedSecondLine => Len(last_sos_lines) = 2
        /\ winner = "blue"
        /\ game_over

C16_Witness ==
    /\ ScenarioPlayed
    /\ board[0][0] = "S" /\ board[0][1] = "O" /\ board[0][2] = "S"
    /\ last_move_player = "blue"
    /\ ~RedPreparedSecondLine

(***************************************************************************)
(* C17: in every state reachable by make_move calls, the detection from    *)
(* any cell of the grid reads no cell outside the grid in any of its 8     *)
(* scan directions, and a 3-cell window with a cell outside the grid is    *)
(* "no line", also when the letters at the wrapped-around positions read   *)
(* S-O-S; the lines reported lie inside the grid.                          *)
(***************************************************************************)
ScanDirections ==
    { directions[i] : i \in 1 .. Len(directions) }
    \cup { <<-directions[i][1], -directions[i][2]>> : i \in 1 .. Len(directions) }

InGrid(p) == in_bounds(board_size, p[1], p[2])

WindowInGrid(r, c, d) ==
    /\ InGrid(<<r + d[1], c + d[2]>>)
    /\ InGrid(<<r + 2*d[1], c + 2*d[2]>>)

C17_DetectionStaysInGrid ==
    /\ \A i \in 1 .. Len(last_sos_lines) :
          /\ InGrid(<<last_sos_lines[i].items[1], last_sos_lines[i].items[2]>>)
          /\ InGrid(<<last_sos_lines[i].items[3], last_sos_lines[i].items[4]>>)
    /\ \A r \in 0 .. board_size - 1, c \in 0 .. board_size - 1 :
          \A d \in ScanDirections :
             /\ \A p \in form_sos_reads(board, board_size, r, c, d[1], d[2]) :
                   InGrid(p)
             /\ ~WindowInGrid(r, c, d) =>
                   ~form_sos(board, board_size, r, c, d[1], d[2])

\* The corner (0,0) holds an S and the cells that list indexing would reach
\* by wrapping to the left of it hold O and S; no line is reported there.
C17_Witness ==
    /\ board[0][0] = "S"
    /\ board[0][board_size - 1] = "O"
    /\ board[0][board_size - 2] = "S"
    /\ check_for_sos(board, board_size, 0, 0) = <<>>

(***************************************************************************)
(* C19: the move history is append-only and in play order.  A successful   *)
(* make_move appends exactly one entry {player = the acting player, r, c,  *)
(* letter = the normalized letter, sos = the lines detected for the move}  *)
(* and leaves the earlier entries unchanged; a rejected make_move appends  *)
(* nothing.  Hence every entry agrees with the board and with the          *)
(* ownership map, and no cell appears in two entries.                      *)
(***************************************************************************)
EntriesAgreeWithBoard(h, b, ob) ==
    /\ \A k \in 1 .. Len(h) :
          /\ b[h[k].r][h[k].c] = h[k].letter
          /\ ob[h[k].r][h[k].c] = h[k].player
    /\ \A j, k \in 1 .. Len(h) :
          j # k => <<h[j].r, h[j].c>> # <<h[k].r, h[k].c>>

C19_HistoryAppendOnly ==
    [][\/ ret' = FALSE /\ move_history' = move_history
       \/ /\ ret' = TRUE
          /\ Len(move_history') = Len(move_history) + 1
          /\ SubSeq(move_history', 1, Len(move_history)) = move_history
          /\ LET e == move_history'[Len(move_history')]
             IN /\ e.player = current_turn
                /\ cell_empty(board, board_size, e.r, e.c)
                /\ board' = [board EXCEPT ![e.r][e.c] = e.letter]
                /\ \E x \in Inputs :
                      /\ x[1] = e.r
                      /\ x[2] = e.c
                      /\ upper(strip(x[3])) = <<e.letter>>
                /\ Quads(e.sos) = Quads(last_sos_lines')
                /\ Quads(e.sos) = Quads(check_for_sos(board', board_size, e.r, e.c))
          /\ EntriesAgreeWithBoard(move_history', board', owner_board')]_vars

\* A game that went on after a move with a line, and whose last call was
\* rejected.
C19_Witness ==
    /\ Len(move_history) >= 4
    /\ \E k \in 1 .. Len(move_history) - 1 : move_history[k].sos # <<>>
    /\ ret = FALSE

(***************************************************************************)
(* C20: blue moves first and the players strictly alternate, in both       *)
(* modes: the k-th history entry (from 0) is blue's when k is even and     *)
(* red's when k is odd, while the game is in progress current_turn is blue *)
(* exactly when move_count is even, and no player places two letters in a  *)
(* row, even after forming a line.                                         *)
(***************************************************************************)
C20_StrictAlternation ==
    /\ \A k \in 1 .. Len(move_history) :
          move_history[k].player = IF (k - 1) % 2 = 0 THEN "blue" ELSE "red"
    /\ ~game_over => (current_turn = "blue" <=> move_count % 2 = 0)
    /\ \A k \in 1 .. Len(move_history) - 1 :
          move_history[k].player # move_history[k + 1].player

\* Red has moved right after blue formed a line.
C20_Witness ==
    \E k \in 1 .. Len(move_history) - 1 :
        /\ move_history[k].sos # <<>>
        /\ move_history[k].player = "blue"
        /\ move_history[k + 1].player = "red"

(***************************************************************************)
(* reset_game called on the engine, as the constructor does.               *)
(***************************************************************************)
ResetGame ==
    /\ board' = EmptyGrid(board_size)
    /\ current_turn' = "blue"
    /\ move_count' = 0
    /\ game_over' = FALSE
    /\ last_sos_lines' = <<>>
    /\ last_move_player' = None
    /\ owner_board' = EmptyGrid(board_size)
    /\ move_history' = <<>>
    /\ raised' = FALSE
    /\ UNCHANGED <<mode, board_size, winner, scores, ret>>

\* The caller keeps to MaxResets calls.
CallerMayReset == resets < MaxResets

(***************************************************************************)
(* A session on one engine: games played by make_move calls, with          *)
(* import_record and reset_game calls in between.  In a session the caller *)
(* fills the board in row-major order without passing over a cell.         *)
(***************************************************************************)
NextSession ==
    \/ NextPlayed /\ skipped' = skipped
    \/ \E payload \in Payloads :
          /\ CallerMayImport(payload)
          /\ ImportRecord(payload)
          /\ imports' = imports + 1
          /\ skipped' = MaxSkip
          /\ UNCHANGED resets
    \/ /\ CallerMayReset
       /\ ResetGame
       /\ resets' = resets + 1
       /\ skipped' = MaxSkip
       /\ UNCHANGED imports

SpecSession == Init /\ [][NextSession]_vars

(***************************************************************************)
(* C21: in every state reachable by make_move and import_record calls the  *)
(* length of move_history equals move_count, which equals the number of    *)
(* non-empty board cells; playing on after an import gives no history      *)
(* longer than the number of letters on the board.                         *)
(***************************************************************************)
Letters_on(b) ==
    Cardinality({ cell \in (DOMAIN b) \X (DOMAIN b) : b[cell[1]][cell[2]] # None })

C21_HistoryCountsLetters ==
    /\ Len(move_history) = move_count
    /\ move_count = Letters_on(board)

(***************************************************************************)
(* C22: in Simple mode, in every state reachable by make_move, reset_game  *)
(* and import_record calls, winner is set only if game_over is true, and   *)
(* then only the last history entry has a non-empty sos list; resetting or *)
(* importing into a game that was won leaves no winner on the game in      *)
(* progress.                                                               *)
(***************************************************************************)
C22_SimpleWinnerOnlyWhenOver ==
    (mode = "simple" /\ winner # None) =>
        /\ game_over
        /\ move_history # <<>>
        /\ \A k \in 1 .. Len(move_history) :
              move_history[k].sos # <<>> <=> k = Len(move_history)

(***************************************************************************)
(* The caller of Spec when legal moves keep being played: a call that      *)
(* places a letter is not put off forever while one is possible.           *)
(***************************************************************************)
\* A call that places a letter, told by what it leaves behind: make_move
\* returned True and counted the move.  Such a call is possible exactly
\* while the game is not over and a cell is empty.
KeepsPlaying ==
    /\ ~game_over
    /\ \E r \in 0 .. board_size - 1, c \in 0 .. board_size - 1 :
          cell_empty(board, board_size, r, c)
    /\ ret' = TRUE
    /\ move_count' = move_count + 1

SpecLive == Init /\ [][Next]_vars /\ WF_move_count(KeepsPlaying)

\* Among the steps of Next, KeepsPlaying picks out the successful calls, and
\* it is possible exactly when a successful call is: the fairness condition
\* of SpecLive is weak fairness of NextPlayed.
KeepsPlayingIsNextPlayed ==
    [][ret' = FALSE \/ (KeepsPlaying <=> NextPlayed)]_vars

KeepsPlayingEnabled ==
    (ENABLED KeepsPlaying) <=> (ENABLED NextPlayed)


(***************************************************************************)
(* C23: every game terminates.  In both modes move_count increases by      *)
(* exactly 1 on each successful make_move and never otherwise, never       *)
(* exceeds board_size squared, and while the game is not over there is an  *)
(* empty cell to play; so if legal moves keep being played the game        *)
(* eventually reaches game_over, after at most board_size squared          *)
(* successful moves.                                                       *)
(***************************************************************************)
HasLegalMove ==
    \E r \in 0 .. board_size - 1, c \in 0 .. board_size - 1 :
        cell_empty(board, board_size, r, c)

C23_EveryGameTerminates ==
    /\ [][\/ ret' = FALSE /\ move_count' = move_count
          \/ /\ ret' = TRUE
             /\ ~game_over
             /\ move_count' = move_count + 1
             /\ move_count' <= board_size * board_size
             /\ game_over' \/ HasLegalMove']_vars
    /\ <>game_over

\* A game that ended on a full board, by its last successful move.
C23_Witness ==
    /\ game_over
    /\ move_count = board_size * board_size
    /\ ret = TRUE

====
